---------------------------- MODULE Spec2Model ----------------------------
(***************************************************************************)
(* A model of the notification relay: the socket.io room registry and the  *)
(* handlers of lib/socket.js and server.js that fan events out to rooms,   *)
(* the sentNotifications dedup cache, and the hybrid (MySQL + JSON file)   *)
(* subscription store of lib/hybrid-database.js.                           *)
(*                                                                         *)
(* Strings are sequences of one-token strings, so that the template        *)
(* literals of the source (`user-${id}`, the notification id) are real     *)
(* concatenations.  <<>> is the empty string and stands for every falsy    *)
(* value a handler tests with `!x` (null, undefined, "").                  *)
(***************************************************************************)
EXTENDS Integers, Sequences, FiniteSets, TLC

(* ------------------------------ bounds --------------------------------- *)

\* Number of socket slots (simultaneously open connections).
MaxConns == 2

\* How many times initSocket is called.
MaxInits == 3

Conns == 1..MaxConns

\* Socket slots of the scenario with one more connection in a room.
MaxRoomConns == MaxConns + 1

RoomConns == 1..MaxRoomConns

\* "No connection": the requester of an event that came in over HTTP.
NoConn == 0

Falsy == <<>>

\* Identifiers clients send in join requests and HTTP bodies.
UserIds == {<<"1">>, <<"2">>}

CompanyIds == {<<"7">>, <<"8">>}

VARIABLES
  io,               \* let io: the servers, connection handlers and sweep timers
                    \* initSocket has created, and how often it was called
  live,             \* connected sockets (io.engine clients)
  rooms,            \* io.sockets.adapter.rooms: room name -> set of sockets
  sockUserId,       \* socket.userId of each socket
  sockCompanyId,    \* socket.companyId of each socket
  userSockets,      \* the userSockets Map: user id -> socket
  ev,               \* the inbound event handled last, and what it emitted
  sentNotifications,\* the sentNotifications Map: notification id -> Date.now()
  now,              \* the reading of Date.now()
  nextSweep,        \* when the cache sweep timer fires next
  prevNotif,        \* the notification dispatch admitted last (history)
  dbUp,             \* the MySQL server answers
  mysqlRows,        \* the rows of table socket_subscriptions
  jsonFile,         \* db.subscriptions of data/subscriptions.json
  isOnline,         \* hybrid-database.js: let isOnline
  syncQueue,        \* hybrid-database.js: let syncQueue
  task,             \* the async calls in progress, one slot per caller
  writes,           \* how many writes have been requested so far
  lastWrite,        \* per user, the write that returned last (history)
  lastLocal         \* per user, the local write that completed last (history)

regVars == <<io, live, rooms, sockUserId, sockCompanyId, userSockets>>

dedupVars == <<sentNotifications, now, nextSweep, prevNotif>>

storeVars == <<dbUp, mysqlRows, jsonFile, isOnline, syncQueue, task, writes,
               lastWrite, lastLocal>>

vars == <<io, live, rooms, sockUserId, sockCompanyId, userSockets, ev,
          sentNotifications, now, nextSweep, prevNotif,
          dbUp, mysqlRows, jsonFile, isOnline, syncQueue, task, writes,
          lastWrite, lastLocal>>

(* --------------------------- socket.io rooms --------------------------- *)

\* Room names, as the template literals build them.
UserRoom(userId) == <<"user-">> \o userId

CompanyRoom(companyId) == <<"company-">> \o companyId

WaiterRoom(companyId) == <<"waiters-">> \o companyId

GlobalWaiters == <<"waiters">>

\* io.sockets.adapter.rooms.get(room): the member set, or none.
Members(rs, room) == IF room \in DOMAIN rs THEN rs[room] ELSE {}

\* A join that only ever adds to a room that already exists.
JoinRoomExistingOnly(rs, c, room) ==
  IF room \in DOMAIN rs THEN [rs EXCEPT ![room] = @ \cup {c}] ELSE rs

\* socket.join(room): the adapter creates the room when it is new.
JoinRoom(rs, c, room) ==
  IF room \in DOMAIN rs
    THEN [rs EXCEPT ![room] = @ \cup {c}]
    ELSE [r \in DOMAIN rs \cup {room} |-> IF r = room THEN {c} ELSE rs[r]]

\* A leave that takes the socket out of no room.
LeaveRoomKeeps(rs, c, room) == rs

\* socket.leave(room): the adapter deletes a room that becomes empty.
LeaveRoom(rs, c, room) ==
  IF room \notin DOMAIN rs THEN rs
  ELSE IF rs[room] \ {c} = {}
    THEN [r \in DOMAIN rs \ {room} |-> rs[r]]
    ELSE [rs EXCEPT ![room] = @ \ {c}]

\* A closing socket that leaves its rooms behind in the adapter, empty or not.
LeaveAllKeepsRooms(rs, c) == [r \in DOMAIN rs |-> rs[r] \ {c}]

\* What the adapter does when a socket closes: it leaves every room.
LeaveAll(rs, c) ==
  [r \in {x \in DOMAIN rs : rs[x] \ {c} # {}} |-> rs[r] \ {c}]

\* The rooms a socket is in.
RoomsOf(rs, c) == {r \in DOMAIN rs : c \in rs[r]}

\* An emit that ignores the room and writes to the members of every room.
EmitToEveryRoom(rs, room) == UNION {rs[r] : r \in DOMAIN rs}

\* io.to(room).emit(...): the sockets the event is written to.
EmitTo(rs, room) == Members(rs, room)

\* io.emit(...): every connected socket.
EmitAll(lv) == lv

\* userSockets.delete(key)
MapDelete(m, key) == [k \in DOMAIN m \ {key} |-> m[k]]

\* userSockets.set(key, value)
MapSet(m, key, value) ==
  [k \in DOMAIN m \cup {key} |-> IF k = key THEN value ELSE m[k]]

EmptyMap == [k \in {} |-> 0]

\* The room every socket is in from its connection on: its own id.
SocketRoom(c) == <<"sid-", ToString(c)>>

\* io.sockets.adapter.rooms: the joined rooms and each live socket's own room.
AdapterRooms(rs, lv) ==
  [r \in DOMAIN rs \cup {SocketRoom(c) : c \in lv} |->
     IF r \in DOMAIN rs THEN rs[r] ELSE {c \in lv : SocketRoom(c) = r}]

\* getConnectionStats(), once the server is initialised.
getConnectionStats(rs, lv, us) ==
  [clientsCount |-> Cardinality(lv),
   userCount |-> Cardinality(DOMAIN us),
   rooms |-> DOMAIN AdapterRooms(rs, lv),
   connectedUsers |-> DOMAIN us]

(* ------------------------- the event record ---------------------------- *)

NoCopies == [c \in RoomConns |-> 0]

\* One more copy of the event for every socket in `to`.
AddCopies(copies, to) ==
  [c \in RoomConns |-> copies[c] + (IF c \in to THEN 1 ELSE 0)]

\* kind: the event name; conn: the requesting socket (NoConn over HTTP);
\* scopes: the rooms the event names (joined, or targeted);
\* copies: how many times the event was emitted to each socket;
\* reply: what the requester got back; count: the client count it reports;
\* repeat: the event is a notification with the target and message of the
\* notification admitted last on the same path, less than the retention
\* window ago; heldFor: how long the id of the notification had been in the
\* cache when the request came, in ticks, and -1 when it was not in it;
\* left: the rooms the handler made the socket leave.
Event(kind, conn, scopes, copies, reply, count) ==
  [kind |-> kind, conn |-> conn, scopes |-> scopes, copies |-> copies,
   reply |-> reply, count |-> count, repeat |-> FALSE, heldFor |-> -1,
   left |-> {}]

Receivers == {c \in RoomConns : ev.copies[c] > 0}

(* ------------------------------- Init ---------------------------------- *)

\* let io, before initSocket is called.
NoServer == [servers |-> 0, listeners |-> 0, timers |-> 0, calls |-> 0]

\* initSocket's body: new Server(...), setInterval(sweep), io.on('connection').
Created(s) ==
  [s EXCEPT !.servers = @ + 1, !.listeners = @ + 1, !.timers = @ + 1]

\* The state when the module is loaded.
InitModule ==
  /\ io = NoServer
  /\ live = {}
  /\ rooms = [r \in {} |-> {}]
  /\ sockUserId = [c \in RoomConns |-> Falsy]
  /\ sockCompanyId = [c \in RoomConns |-> Falsy]
  /\ userSockets = EmptyMap
  /\ ev = Event("init", NoConn, {}, NoCopies, "", 0)

\* The state once server.js has called initSocket(httpServer) at start-up.
InitReg ==
  /\ io = [Created(NoServer) EXCEPT !.calls = 1]
  /\ live = {}
  /\ rooms = [r \in {} |-> {}]
  /\ sockUserId = [c \in RoomConns |-> Falsy]
  /\ sockCompanyId = [c \in RoomConns |-> Falsy]
  /\ userSockets = EmptyMap
  /\ ev = Event("init", NoConn, {}, NoCopies, "", 0)

(* ------------------- connection and join handlers ---------------------- *)

\* An initSocket without the `if (!io)` test.
InitSocketAgain ==
  /\ io.calls < MaxInits
  /\ io' = [Created(io) EXCEPT !.calls = @ + 1]
  /\ ev' = Event("initSocket", NoConn, {}, NoCopies, "io", io'.servers)
  /\ UNCHANGED <<live, rooms, sockUserId, sockCompanyId, userSockets,
                 dedupVars, storeVars>>

\* initSocket(server): creates the server when io is not set, and returns io
\* (count: which server instance it returns).
InitSocket ==
  /\ io.calls < MaxInits
  /\ io' = [(IF io.servers = 0 THEN Created(io) ELSE io) EXCEPT !.calls = @ + 1]
  /\ ev' = Event("initSocket", NoConn, {}, NoCopies, "io", io'.servers)
  /\ UNCHANGED <<live, rooms, sockUserId, sockCompanyId, userSockets,
                 dedupVars, storeVars>>

\* What the sockets get when every registered copy of a handler has run: each
\* connection handler registered on io gave the socket one.
Handled(e) == [e EXCEPT !.copies = [x \in RoomConns |-> e.copies[x] * io.listeners]]

\* io.on('connection'): a new socket, with socket.userId = null.
Connect(c) ==
  /\ io.servers > 0
  /\ c \notin live
  /\ live' = live \cup {c}
  /\ sockUserId' = [sockUserId EXCEPT ![c] = Falsy]
  /\ sockCompanyId' = [sockCompanyId EXCEPT ![c] = Falsy]
  /\ ev' = Event("connection", c, {}, NoCopies, "", 0)
  /\ UNCHANGED <<io, rooms, userSockets, dedupVars, storeVars>>

\* socket.on('join-user-room', userId)
JoinUserRoom(c, userId) ==
  /\ c \in live
  /\ IF userId = Falsy
       THEN /\ ev' = Event("join-user-room", c, {}, NoCopies, "join-error", 0)
            /\ UNCHANGED <<regVars, dedupVars, storeVars>>
       ELSE LET had == sockUserId[c] # Falsy
                left == IF had THEN LeaveRoom(rooms, c, UserRoom(sockUserId[c]))
                               ELSE rooms
                dropped == IF had THEN MapDelete(userSockets, sockUserId[c])
                                  ELSE userSockets
            IN /\ rooms' = JoinRoom(left, c, UserRoom(userId))
               /\ sockUserId' = [sockUserId EXCEPT ![c] = userId]
               /\ userSockets' = MapSet(dropped, userId, c)
               /\ ev' = [Event("join-user-room", c, {UserRoom(userId)}, NoCopies,
                               "joined-room", 0)
                           EXCEPT !.left = IF had THEN {UserRoom(sockUserId[c])}
                                                  ELSE {}]
               /\ UNCHANGED <<io, live, sockCompanyId, dedupVars, storeVars>>

\* A join-company-room that leaves the previous company room after it has
\* joined the new one.
JoinCompanyRoomLeavesLast(c, userId, companyId) ==
  /\ c \in live
  /\ IF userId = Falsy \/ companyId = Falsy
       THEN /\ ev' = Event("join-company-room", c, {}, NoCopies, "join-error", 0)
            /\ UNCHANGED <<regVars, dedupVars, storeVars>>
       ELSE LET joined == JoinRoom(rooms, c, CompanyRoom(companyId))
            IN /\ rooms' = IF sockCompanyId[c] # Falsy
                             THEN LeaveRoom(joined, c, CompanyRoom(sockCompanyId[c]))
                             ELSE joined
               /\ sockCompanyId' = [sockCompanyId EXCEPT ![c] = companyId]
               /\ ev' = [Event("join-company-room", c, {CompanyRoom(companyId)},
                               NoCopies, "joined-company-room", 0)
                           EXCEPT !.left = IF sockCompanyId[c] # Falsy
                                             THEN {CompanyRoom(sockCompanyId[c])}
                                             ELSE {}]
               /\ UNCHANGED <<io, live, sockUserId, userSockets, dedupVars, storeVars>>

\* socket.on('join-company-room', {userId, companyId})
JoinCompanyRoom(c, userId, companyId) ==
  /\ c \in live
  /\ IF userId = Falsy \/ companyId = Falsy
       THEN /\ ev' = Event("join-company-room", c, {}, NoCopies, "join-error", 0)
            /\ UNCHANGED <<regVars, dedupVars, storeVars>>
       ELSE LET left == IF sockCompanyId[c] # Falsy
                          THEN LeaveRoom(rooms, c, CompanyRoom(sockCompanyId[c]))
                          ELSE rooms
            IN /\ rooms' = JoinRoom(left, c, CompanyRoom(companyId))
               /\ sockCompanyId' = [sockCompanyId EXCEPT ![c] = companyId]
               /\ ev' = [Event("join-company-room", c, {CompanyRoom(companyId)},
                               NoCopies, "joined-company-room", 0)
                           EXCEPT !.left = IF sockCompanyId[c] # Falsy
                                             THEN {CompanyRoom(sockCompanyId[c])}
                                             ELSE {}]
               /\ UNCHANGED <<io, live, sockUserId, userSockets, dedupVars, storeVars>>

\* A join-waiter-room that joins 'waiters' only when no company is given.
JoinWaiterRoomEither(c, companyId) ==
  /\ c \in live
  /\ LET joined == IF companyId # Falsy THEN {WaiterRoom(companyId)}
                                        ELSE {GlobalWaiters}
     IN /\ rooms' = IF companyId # Falsy
                      THEN JoinRoom(rooms, c, WaiterRoom(companyId))
                      ELSE JoinRoom(rooms, c, GlobalWaiters)
        /\ ev' = Event("join-waiter-room", c, joined, NoCopies,
                       "joined-waiter-room", 0)
  /\ UNCHANGED <<io, live, sockUserId, sockCompanyId, userSockets, dedupVars, storeVars>>

\* socket.on('join-waiter-room', companyId)
JoinWaiterRoom(c, companyId) ==
  /\ c \in live
  /\ LET own == IF companyId # Falsy
                  THEN JoinRoom(rooms, c, WaiterRoom(companyId))
                  ELSE rooms
         joined == IF companyId # Falsy
                     THEN {WaiterRoom(companyId), GlobalWaiters}
                     ELSE {GlobalWaiters}
     IN /\ rooms' = JoinRoom(own, c, GlobalWaiters)
        /\ ev' = Event("join-waiter-room", c, joined, NoCopies,
                       "joined-waiter-room", 0)
  /\ UNCHANGED <<io, live, sockUserId, sockCompanyId, userSockets, dedupVars, storeVars>>

\* socket.on('disconnect'): socket.io has taken the socket out of every room
\* before the handler runs; the handler drops the user mapping.
Disconnect(c) ==
  /\ c \in live
  /\ live' = live \ {c}
  /\ rooms' = LeaveAll(rooms, c)
  /\ userSockets' = IF sockUserId[c] # Falsy
                      THEN MapDelete(userSockets, sockUserId[c])
                      ELSE userSockets
  /\ sockUserId' = [sockUserId EXCEPT ![c] = Falsy]
  /\ sockCompanyId' = [sockCompanyId EXCEPT ![c] = Falsy]
  /\ ev' = Event("disconnect", c, RoomsOf(rooms, c), NoCopies, "", 0)
  /\ UNCHANGED <<io, dedupVars, storeVars>>

(* ------------------------ dispatch handlers ---------------------------- *)

\* POST /api/content/refresh  {userId, companyId, page, component, broadcast}
ContentRefresh(broadcast, companyId, userId, hasPage) ==
  /\ IF ~hasPage
       THEN ev' = Event("content-refresh", NoConn, {}, NoCopies, "400", 0)
     ELSE IF broadcast
       THEN ev' = Event("content-refresh", NoConn, {},
                        AddCopies(NoCopies, EmitAll(live)), "200-all",
                        Cardinality(live))
     ELSE IF companyId # Falsy
       THEN ev' = Event("content-refresh", NoConn, {CompanyRoom(companyId)},
                        AddCopies(NoCopies, EmitTo(rooms, CompanyRoom(companyId))),
                        "200", Cardinality(Members(rooms, CompanyRoom(companyId))))
     ELSE IF userId # Falsy
       THEN ev' = Event("content-refresh", NoConn, {UserRoom(userId)},
                        AddCopies(NoCopies, EmitTo(rooms, UserRoom(userId))),
                        "200", Cardinality(Members(rooms, UserRoom(userId))))
     ELSE ev' = Event("content-refresh", NoConn, {}, NoCopies, "400", 0)
  /\ UNCHANGED <<regVars, dedupVars, storeVars>>

\* socket.on('call-waiter'): the bell goes to the global waiter room.
CallWaiter(c) ==
  /\ c \in live
  /\ ev' = Event("call-waiter", c, {GlobalWaiters},
                 AddCopies(NoCopies, EmitTo(rooms, GlobalWaiters)),
                 "waiter-called", 0)
  /\ UNCHANGED <<regVars, dedupVars, storeVars>>

\* socket.on('request-call', {companyId})
RequestCall(c, companyId) ==
  /\ c \in live
  /\ LET targetRoom == IF companyId # Falsy THEN WaiterRoom(companyId)
                                            ELSE GlobalWaiters
     IN ev' = Event("request-call", c, {targetRoom},
                    AddCopies(NoCopies, EmitTo(rooms, targetRoom)), "",
                    Cardinality(Members(rooms, targetRoom)))
  /\ UNCHANGED <<regVars, dedupVars, storeVars>>

\* socket.on('cancel-call-request', data): emitted to 'waiters', and again to
\* the company's waiter room when data carries a companyId.
CancelCallRequest(c, companyId) ==
  /\ c \in live
  /\ LET first == AddCopies(NoCopies, EmitTo(rooms, GlobalWaiters))
     IN IF companyId # Falsy
          THEN ev' = Event("cancel-call-request", c,
                           {GlobalWaiters, WaiterRoom(companyId)},
                           AddCopies(first, EmitTo(rooms, WaiterRoom(companyId))),
                           "", 0)
          ELSE ev' = Event("cancel-call-request", c, {GlobalWaiters}, first, "", 0)
  /\ UNCHANGED <<regVars, dedupVars, storeVars>>

\* The WebRTC signaling events a socket sends to a user.
SignalKinds == {"call-user", "answer-call", "ice-candidate", "end-call"}

\* A relay that writes the message to every connected socket.
SignalToAll(c, kind, to) ==
  /\ c \in live
  /\ ev' = Event(kind, c, {UserRoom(to)}, AddCopies(NoCopies, EmitAll(live)), "", 0)
  /\ UNCHANGED <<regVars, dedupVars, storeVars>>

\* socket.on('call-user' | 'answer-call' | 'ice-candidate' | 'end-call'):
\* io.to(`user-${to}`).emit(...), and nothing else.
Signal(c, kind, to) ==
  /\ c \in live
  /\ ev' = Handled(Event(kind, c, {UserRoom(to)},
                         AddCopies(NoCopies, EmitTo(rooms, UserRoom(to))), "", 0))
  /\ UNCHANGED <<regVars, dedupVars, storeVars>>

(* ---------------------- the dedup cache and clock ----------------------- *)

\* The clock is followed in ticks of 60000 ms, the period of the sweep
\* timer; the window is five of them (5 * 60 * 1000).
TickMs == 60000

RetentionWindow == 5

SweepInterval == 1

\* message.slice(0, 20)
SliceLen == 20

\* Last reading of the clock the model follows.
MaxTime == 6

\* Last reading of the clock when retries of one notification are followed.
RetryTime == 2

\* Last reading of the clock when the age of cache entries is followed.
SweepTime == 7

\* Largest number of entries the cache is let to hold.
MaxCache == 2

\* Sockets that take part in notification traffic.
MaxNotifConns == 1

NotifConns == 1..MaxNotifConns

\* Targets and messages of notification requests.  A target is any string
\* the requester chooses; a message may hold white space and dashes.
NotifTargets == {<<"1">>, <<"1", "-", "0">>}

NotifRequests ==
  { <<(<<"1">>), (<<"3", "6", "0", "0", "0", "0", " ", "h", "i">>)>>,
    <<(<<"1", "-", "0">>), (<<"h", "i">>)>> }

\* Requests that lack the target or the message.
BadRequests == { <<Falsy, (<<"h", "i">>)>>, <<(<<"1">>), Falsy>> }

\* The notification of the retry scenario: "hi" to user 1.
RetryRequests == { <<(<<"1">>), (<<"h", "i">>)>> }

White == {" "}

DigitChar(d) ==
  CASE d = 0 -> "0" [] d = 1 -> "1" [] d = 2 -> "2" [] d = 3 -> "3"
    [] d = 4 -> "4" [] d = 5 -> "5" [] d = 6 -> "6" [] d = 7 -> "7"
    [] d = 8 -> "8" [] d = 9 -> "9"

\* Date.now() at tick t, in milliseconds.
DateNow(t) == t * TickMs

\* `${n}`: the decimal digits of a number.
RECURSIVE NatToString(_)
NatToString(n) ==
  IF n < 10 THEN <<DigitChar(n)>>
  ELSE NatToString(n \div 10) \o <<DigitChar(n % 10)>>

\* s.slice(0, n)
Slice(s, n) == SubSeq(s, 1, IF Len(s) < n THEN Len(s) ELSE n)

\* s.replace(/\s+/g, '-'): every run of white space becomes one dash.
RECURSIVE ReplaceWs(_)
ReplaceWs(s) ==
  IF s = <<>> THEN <<>>
  ELSE IF Head(s) \in White
    THEN IF Len(s) > 1 /\ s[2] \in White
           THEN ReplaceWs(Tail(s))
           ELSE <<"-">> \o ReplaceWs(Tail(s))
    ELSE <<Head(s)>> \o ReplaceWs(Tail(s))

\* `${prefix}${target}-${Date.now()}-${message.slice(0, 20).replace(/\s+/g, '-')}`
NotificationId(prefix, target, t, message) ==
  <<prefix>> \o target \o <<"-">> \o NatToString(DateNow(t)) \o <<"-">>
    \o ReplaceWs(Slice(message, SliceLen))

\* sentNotifications.has(id)
Has(cache, id) == id \in DOMAIN cache

\* An admission test that lets every notification through.
AdmitAlways(cache, id, t) == TRUE

\* The admission test of the handlers: a notification is let through when
\* its id is not in the cache, whatever the age of the entry.
Admit(cache, id, t) == ~Has(cache, id)

\* How long the id has been in the cache, -1 when it is not in it.
HeldFor(cache, id, t) == IF Has(cache, id) THEN t - cache[id] ELSE -1

\* A sweep that deletes nothing.
SweptNone(cache, t) == cache

\* The sweep: sentNotifications.delete(key) for each timestamp < fiveMinutesAgo.
Swept(cache, t) ==
  [k \in {x \in DOMAIN cache : ~(cache[x] < t - RetentionWindow)} |-> cache[k]]

NoNotif == [path |-> "", target |-> <<>>, message |-> <<>>, at |-> 0]

Notif(path, target, message, t) ==
  [path |-> path, target |-> target, message |-> message, at |-> t]

\* The request repeats the notification admitted last on this path.
IsRepeat(path, target, message) ==
  /\ prevNotif.path = path
  /\ prevNotif.target = target
  /\ prevNotif.message = message
  /\ now - prevNotif.at < RetentionWindow

InitDedup ==
  /\ sentNotifications = EmptyMap
  /\ now = 0
  /\ nextSweep = SweepInterval
  /\ prevNotif = NoNotif

\* The replies of a notification request that was admitted.
AdmittedReplies ==
  {"notification-sent", "notification-error: not connected", "notification", "200"}

\* History: remember the notification when the handler admitted it.
Track(path, target, message) ==
  prevNotif' = IF ev'.reply \in AdmittedReplies
                 THEN Notif(path, target, message, now)
                 ELSE prevNotif

\* Time passes; the sweep timer fires when it is due.
Tick(last) ==
  /\ now < last
  /\ now < nextSweep
  /\ now' = now + 1
  /\ UNCHANGED <<regVars, storeVars, ev, sentNotifications, nextSweep, prevNotif>>

\* The setInterval callback of initSocket.
Sweep ==
  /\ now = nextSweep
  /\ sentNotifications' = Swept(sentNotifications, now)
  /\ nextSweep' = nextSweep + SweepInterval
  /\ UNCHANGED <<regVars, storeVars, ev, now, prevNotif>>

\* The cache has room for one more id (or the id is in it already).
Room(id) ==
  \/ Has(sentNotifications, id)
  \/ Cardinality(DOMAIN sentNotifications) < MaxCache

\* A send-notification that records the id only once it has found the room.
SendNotificationLate(c, targetUserId, message) ==
  /\ c \in live
  /\ IF targetUserId = Falsy \/ message = Falsy
       THEN /\ ev' = Event("send-notification", c, {}, NoCopies,
                           "notification-error: missing", 0)
            /\ UNCHANGED sentNotifications
       ELSE LET id == NotificationId("user-", targetUserId, now, message)
                roomName == UserRoom(targetUserId)
                roomSockets == Members(rooms, roomName)
                rep == IsRepeat("send-notification", targetUserId, message)
                held == HeldFor(sentNotifications, id, now)
            IN /\ Room(id)
               /\ IF ~Admit(sentNotifications, id, now)
                    THEN /\ ev' = [Event("send-notification", c, {roomName},
                                         NoCopies, "notification-error: duplicate",
                                         0) EXCEPT !.repeat = rep, !.heldFor = held]
                         /\ UNCHANGED sentNotifications
                    ELSE /\ sentNotifications' = IF roomSockets # {}
                                                   THEN MapSet(sentNotifications, id, now)
                                                   ELSE sentNotifications
                         /\ IF roomSockets # {}
                              THEN ev' = [Event("send-notification", c, {roomName},
                                                AddCopies(NoCopies, EmitTo(rooms, roomName)),
                                                "notification-sent",
                                                Cardinality(roomSockets))
                                            EXCEPT !.repeat = rep, !.heldFor = held]
                              ELSE ev' = [Event("send-notification", c, {roomName},
                                                NoCopies,
                                                "notification-error: not connected",
                                                0) EXCEPT !.repeat = rep, !.heldFor = held]
  /\ UNCHANGED <<regVars, storeVars, now, nextSweep>>

\* socket.on('send-notification', {targetUserId, message})
SendNotification(c, targetUserId, message) ==
  /\ c \in live
  /\ IF targetUserId = Falsy \/ message = Falsy
       THEN /\ ev' = Event("send-notification", c, {}, NoCopies,
                           "notification-error: missing", 0)
            /\ UNCHANGED sentNotifications
       ELSE LET id == NotificationId("user-", targetUserId, now, message)
                roomName == UserRoom(targetUserId)
                roomSockets == Members(rooms, roomName)
                rep == IsRepeat("send-notification", targetUserId, message)
                held == HeldFor(sentNotifications, id, now)
            IN /\ Room(id)
               /\ IF ~Admit(sentNotifications, id, now)
                    THEN /\ ev' = [Event("send-notification", c, {roomName},
                                         NoCopies, "notification-error: duplicate",
                                         0) EXCEPT !.repeat = rep, !.heldFor = held]
                         /\ UNCHANGED sentNotifications
                    ELSE /\ sentNotifications' = MapSet(sentNotifications, id, now)
                         /\ IF roomSockets # {}
                              THEN ev' = [Event("send-notification", c, {roomName},
                                                AddCopies(NoCopies, EmitTo(rooms, roomName)),
                                                "notification-sent",
                                                Cardinality(roomSockets))
                                            EXCEPT !.repeat = rep, !.heldFor = held]
                              ELSE ev' = [Event("send-notification", c, {roomName},
                                                NoCopies,
                                                "notification-error: not connected",
                                                0) EXCEPT !.repeat = rep, !.heldFor = held]
  /\ UNCHANGED <<regVars, storeVars, now, nextSweep>>

\* A sendToUser that emits the notification also when it turns it away.
SendToUserAgain(userId, message) ==
  /\ LET id == NotificationId("server-", userId, now, message)
         roomName == UserRoom(userId)
         roomSockets == Members(rooms, roomName)
         rep == IsRepeat("sendToUser", userId, message)
         held == HeldFor(sentNotifications, id, now)
     IN /\ Room(id)
        /\ IF ~Admit(sentNotifications, id, now)
             THEN /\ ev' = [Event("sendToUser", NoConn, {roomName},
                                  AddCopies(NoCopies, EmitTo(rooms, roomName)),
                                  "null", 0) EXCEPT !.repeat = rep, !.heldFor = held]
                  /\ UNCHANGED sentNotifications
             ELSE /\ sentNotifications' = MapSet(sentNotifications, id, now)
                  /\ ev' = [Event("sendToUser", NoConn, {roomName},
                                  IF roomSockets # {}
                                    THEN AddCopies(NoCopies, EmitTo(rooms, roomName))
                                    ELSE NoCopies,
                                  "notification", Cardinality(roomSockets))
                              EXCEPT !.repeat = rep, !.heldFor = held]
  /\ UNCHANGED <<regVars, storeVars, now, nextSweep>>

\* sendToUser(userId, message): returns null for a duplicate, else the
\* notification.
SendToUser(userId, message) ==
  /\ LET id == NotificationId("server-", userId, now, message)
         roomName == UserRoom(userId)
         roomSockets == Members(rooms, roomName)
         rep == IsRepeat("sendToUser", userId, message)
         held == HeldFor(sentNotifications, id, now)
     IN /\ Room(id)
        /\ IF ~Admit(sentNotifications, id, now)
             THEN /\ ev' = [Event("sendToUser", NoConn, {roomName}, NoCopies,
                                  "null", 0) EXCEPT !.repeat = rep, !.heldFor = held]
                  /\ UNCHANGED sentNotifications
             ELSE /\ sentNotifications' = MapSet(sentNotifications, id, now)
                  /\ ev' = [Event("sendToUser", NoConn, {roomName},
                                  IF roomSockets # {}
                                    THEN AddCopies(NoCopies, EmitTo(rooms, roomName))
                                    ELSE NoCopies,
                                  "notification", Cardinality(roomSockets))
                              EXCEPT !.repeat = rep, !.heldFor = held]
  /\ UNCHANGED <<regVars, storeVars, now, nextSweep>>

\* POST /api/notifications/send  {userId, message}
ApiNotificationSend(userId, message) ==
  /\ IF userId = Falsy \/ message = Falsy
       THEN ev' = Event("api-notification", NoConn, {}, NoCopies, "400", 0)
       ELSE ev' = [Event("api-notification", NoConn, {UserRoom(userId)},
                         AddCopies(NoCopies, EmitTo(rooms, UserRoom(userId))),
                         "200", Cardinality(live))
                     EXCEPT !.repeat = IsRepeat("api-notification", userId, message)]
  /\ UNCHANGED <<regVars, storeVars, sentNotifications, now, nextSweep>>

(* ------------------- the hybrid subscription store --------------------- *)

\* Callers that write subscriptions at the same time.
MaxClients == 2

\* Callers that write while the health check and the forced sync run.
MaxSoloClients == 1

\* Writes requested in one run.
MaxWrites == 2

Clients == 1..MaxClients

SoloClients == 1..MaxSoloClients

\* The slot of the health check: the call at module load, then the timer's.
HealthTask == MaxClients + 1

\* The slot of POST /sync (forcSync).
ForceTask == MaxClients + 2

Tasks == 1..(MaxClients + 2)

StoreUsers == {"u1", "u2"}

Subscriptions == {"s1", "s2"}

\* A slot with no call in progress.
\* op: the exported function called; pc: the await the call is suspended at;
\* db: the content writeDB is about to write; idx, arr, live: the for-of
\* iterator of syncOfflineData (live: it iterates the array syncQueue names
\* now, else the array `arr` that syncQueue named before it was reassigned);
\* from: the caller of syncOfflineData; queued: the call has called
\* addToSyncQueue; cover: users whose queued write had returned when the call
\* began (history); ret: what the read that used the slot last returned;
\* cause: "gone" when the write was started by a push delivery that failed
\* with the endpoint gone; racing: what the operations of the user that a
\* replay in progress had still to send, or was sending, when the write was
\* called would leave in the table (history).
NoResult == [op |-> "none", userId |-> "", source |-> "", rows |-> {}]

NoTask ==
  [op |-> "none", pc |-> "idle", userId |-> "", subscription |-> "",
   db |-> <<>>, idx |-> 0, arr |-> <<>>, live |-> FALSE, from |-> "",
   queued |-> FALSE, cover |-> {}, ret |-> NoResult, cause |-> "",
   racing |-> {}]

WriteOps == {"add", "remove"}

ReadOps == {"get", "getAll"}

\* sendPushNotification, which begins with hybridDB.getSubscription.
PushOps == {"push"}

\* What webpush.sendNotification resolves or rejects with: 201, an error
\* with a statusCode, or an error without one.
PushStatuses == {"201", "404", "410", "500", "none"}

\* error.statusCode === 410 || error.statusCode === 404
GoneStatuses == {"404", "410"}

NoWrite ==
  [type |-> "none", subscription |-> "", queued |-> FALSE, healed |-> FALSE,
   racing |-> {}]

\* The awaits at which a statement sent to MySQL is outstanding.
MysqlPcs == {"mysql-delete", "mysql-insert", "mysql-remove"}

SyncPcs == {"sync-delete", "sync-insert", "sync-remove"}

\* The await of mysqlDB.getSubscription / getAllSubscriptions.
SelectPcs == {"mysql-select"}

DurablePcs == {"testConnection"} \cup MysqlPcs \cup SyncPcs \cup SelectPcs

\* database.js: db.subscriptions.filter(sub => sub.userId !== userId)
JsonFilter(db, userId) == SelectSeq(db, LAMBDA r : r.userId # userId)

\* database.js addSubscription: filter, then push.
JsonAdd(db, userId, subscription) ==
  Append(JsonFilter(db, userId), [userId |-> userId, subscription |-> subscription])

\* A DELETE that removes no row.
RowsKept(rows, userId) == rows

\* The table is the sequence of its rows, oldest first.
\* DELETE FROM socket_subscriptions WHERE user_id = ?
RowsWithout(rows, userId) == SelectSeq(rows, LAMBDA r : r.userId # userId)

\* INSERT INTO socket_subscriptions ...
RowsWith(rows, userId, subscription) ==
  Append(rows, [userId |-> userId, subscription |-> subscription])

\* A table without the UNIQUE KEY on user_id: no INSERT is refused.
DuplicateKeyNone(rows, userId) == FALSE

\* The unique key on user_id refuses a second row for the user.
DuplicateKey(rows, userId) == \E i \in 1..Len(rows) : rows[i].userId = userId

\* The module state the continuations of a call work on.
Store ==
  [isOnline |-> isOnline, syncQueue |-> syncQueue, task |-> task,
   lastWrite |-> lastWrite]

Becomes(st) ==
  /\ isOnline' = st.isOnline
  /\ syncQueue' = st.syncQueue
  /\ task' = st.task
  /\ lastWrite' = st.lastWrite

SetPc(st, t, pc) == [st EXCEPT !.task[t].pc = pc]

\* An entry of the sync queue; tries: how many times a replay has sent it to
\* MySQL (history).
Operation(type, userId, subscription) ==
  [type |-> type, userId |-> userId, subscription |-> subscription, tries |-> 0]

\* addToSyncQueue with unshift in place of push.
AddToSyncQueueFront(st, t, type, userId, subscription) ==
  [st EXCEPT !.syncQueue = <<Operation(type, userId, subscription)>> \o @,
             !.task[t].queued = TRUE]

\* addToSyncQueue(type, userId, subscription), called by the call in slot t.
AddToSyncQueue(st, t, type, userId, subscription) ==
  [st EXCEPT !.syncQueue = Append(@, Operation(type, userId, subscription)),
             !.task[t].queued = TRUE]

\* The call in slot t returns ret, and the slot is free again.
Return(st, t, ret) ==
  LET me == st.task[t]
      isWrite == me.op \in {"add", "remove"}
      healthy == me.op \in {"health", "force"} /\ ret \in {"true", "success"}
  IN [st EXCEPT
        !.task = [x \in Tasks |->
                    IF x = t
                      THEN NoTask
                      ELSE IF isWrite
                        THEN [st.task[x] EXCEPT !.cover = @ \ {me.userId}]
                        ELSE st.task[x]],
        !.lastWrite = [u \in StoreUsers |->
                    IF isWrite /\ u = me.userId
                      THEN [type |-> me.op, subscription |-> me.subscription,
                            queued |-> me.queued, healed |-> FALSE,
                            racing |-> me.racing]
                      ELSE IF healthy /\ u \in me.cover /\ st.lastWrite[u].queued
                        THEN [st.lastWrite[u] EXCEPT !.healed = TRUE]
                        ELSE st.lastWrite[u]]]

\* The statement a replayed operation starts with.
SyncPc(operation) == IF operation.type = "add" THEN "sync-delete" ELSE "sync-remove"

\* The array the for-of loop of slot t iterates.
SyncArray(st, t) == IF st.task[t].live THEN st.syncQueue ELSE st.task[t].arr

\* The loop of slot t sends operation i of its array to MySQL.
Attempt(st, t, i) ==
  IF st.task[t].live
    THEN [st EXCEPT !.syncQueue[i].tries = @ + 1]
    ELSE [st EXCEPT !.task[t].arr[i].tries = @ + 1]

RECURSIVE AfterCheck(_, _), SyncOfflineData(_, _, _)

\* What the caller does with the value checkMySQLHealth returns (isOnline).
AfterCheck(st, t) ==
  LET me == st.task[t]
  IN CASE me.op = "add" ->
            IF st.isOnline
              THEN SetPc(st, t, "mysql-delete")
              ELSE Return(AddToSyncQueue(st, t, "add", me.userId, me.subscription),
                          t, "jsonResult")
       [] me.op = "remove" ->
            IF st.isOnline
              THEN SetPc(st, t, "mysql-remove")
              ELSE Return(AddToSyncQueue(st, t, "remove", me.userId, ""),
                          t, "undefined")
       [] me.op = "force" ->
            IF st.isOnline
              THEN SyncOfflineData(st, t, "force")
              ELSE Return(st, t, "unavailable")
       [] me.op \in ReadOps \cup PushOps ->
            IF st.isOnline
              THEN SetPc(st, t, "mysql-select")
              ELSE SetPc(st, t, "readDB")
       [] OTHER -> Return(st, t, IF st.isOnline THEN "true" ELSE "false")

\* syncOfflineData up to its first await: return at once, or send the first
\* operation of the queue to MySQL.
SyncOfflineData(st, t, from) ==
  IF ~st.isOnline \/ Len(st.syncQueue) = 0
    THEN IF from = "check" THEN AfterCheck(st, t) ELSE Return(st, t, "success")
    ELSE Attempt([st EXCEPT !.task[t] = [@ EXCEPT !.idx = 1, !.live = TRUE,
                                                  !.arr = <<>>, !.from = from,
                                                  !.pc = SyncPc(st.syncQueue[1])]],
                 t, 1)

\* syncQueue = []: the name is bound to a new array; loops in progress keep
\* the array they started on.
ClearQueue(st, t) ==
  [st EXCEPT
     !.syncQueue = <<>>,
     !.task = [x \in Tasks |->
                 IF x = t
                   THEN [st.task[x] EXCEPT !.idx = 0, !.live = FALSE,
                                           !.arr = <<>>, !.from = ""]
                   ELSE IF st.task[x].live
                     THEN [st.task[x] EXCEPT !.live = FALSE, !.arr = st.syncQueue]
                     ELSE st.task[x]]]

\* The for-of loop moves on: the next operation, or the end of the loop.
NextOperation(st, t) ==
  LET me == st.task[t]
      a == SyncArray(st, t)
  IN IF me.idx < Len(a)
       THEN Attempt([st EXCEPT !.task[t] = [@ EXCEPT !.idx = me.idx + 1,
                                                     !.pc = SyncPc(a[me.idx + 1])]],
                    t, me.idx + 1)
       ELSE IF me.from = "check"
         THEN AfterCheck(ClearQueue(st, t), t)
         ELSE Return(ClearQueue(st, t), t, "success")

InitStore ==
  /\ dbUp = TRUE
  /\ mysqlRows = <<>>
  /\ jsonFile = <<>>
  /\ isOnline = TRUE
  /\ syncQueue = <<>>
  /\ task = [t \in Tasks |->
               IF t = HealthTask
                 THEN [NoTask EXCEPT !.op = "health", !.pc = "testConnection"]
                 ELSE NoTask]
  /\ writes = 0
  /\ lastWrite = [u \in StoreUsers |-> NoWrite]
  /\ lastLocal = [u \in StoreUsers |-> ""]

\* The MySQL server stops answering, and answers again.
DbFail ==
  /\ dbUp
  /\ dbUp' = FALSE
  /\ UNCHANGED <<regVars, ev, dedupVars, mysqlRows, jsonFile, isOnline,
                 syncQueue, task, writes, lastWrite, lastLocal>>

DbRecover ==
  /\ ~dbUp
  /\ dbUp' = TRUE
  /\ UNCHANGED <<regVars, ev, dedupVars, mysqlRows, jsonFile, isOnline,
                 syncQueue, task, writes, lastWrite, lastLocal>>

\* What the operations of a user that the loops of syncOfflineData in
\* progress have not finished sending would leave in the table for the user:
\* the subscription of an add, nothing for a remove (history).
Racing(userId) ==
  {IF operation.type = "add" THEN {operation.subscription} ELSE {} :
     operation \in UNION {{SyncArray(Store, x)[i] :
                             i \in {j \in 1..Len(SyncArray(Store, x)) :
                                      /\ j >= task[x].idx
                                      /\ SyncArray(Store, x)[j].userId = userId}} :
                           x \in {y \in Tasks : task[y].pc \in SyncPcs}}}

\* hybrid addSubscription(userId, subscription) is called: it calls
\* jsonDB.addSubscription, which awaits readDB.
AddSubscription(t, userId, subscription) ==
  /\ task[t].pc = "idle"
  /\ writes < MaxWrites
  /\ writes' = writes + 1
  /\ task' = [task EXCEPT ![t] = [NoTask EXCEPT !.op = "add", !.pc = "readDB",
                                                !.userId = userId,
                                                !.subscription = subscription,
                                                !.racing = Racing(userId)]]
  /\ UNCHANGED <<regVars, ev, dedupVars, dbUp, mysqlRows, jsonFile, isOnline,
                 syncQueue, lastWrite, lastLocal>>

\* hybrid removeSubscription(userId) is called.
RemoveSubscription(t, userId) ==
  /\ task[t].pc = "idle"
  /\ writes < MaxWrites
  /\ writes' = writes + 1
  /\ task' = [task EXCEPT ![t] = [NoTask EXCEPT !.op = "remove", !.pc = "readDB",
                                                !.userId = userId,
                                                !.racing = Racing(userId)]]
  /\ UNCHANGED <<regVars, ev, dedupVars, dbUp, mysqlRows, jsonFile, isOnline,
                 syncQueue, lastWrite, lastLocal>>

\* readDB resolves: the call edits the content it read and awaits writeDB.
ReadDB(t) ==
  /\ task[t].pc = "readDB"
  /\ task[t].op \in WriteOps
  /\ task' = [task EXCEPT
                ![t].db = IF task[t].op = "add"
                            THEN JsonAdd(jsonFile, task[t].userId, task[t].subscription)
                            ELSE JsonFilter(jsonFile, task[t].userId),
                ![t].pc = "writeDB"]
  /\ UNCHANGED <<regVars, ev, dedupVars, dbUp, mysqlRows, jsonFile, isOnline,
                 syncQueue, writes, lastWrite, lastLocal>>

\* readFile or writeFile rejects before anything is written: the exception
\* leaves jsonDB and the hybrid function, whose caller gets it.
LocalFailure(t) ==
  /\ task[t].pc \in {"readDB", "writeDB"}
  /\ task' = [task EXCEPT ![t] = NoTask]
  /\ UNCHANGED <<regVars, ev, dedupVars, dbUp, mysqlRows, jsonFile, isOnline,
                 syncQueue, writes, lastWrite, lastLocal>>

\* writeDB resolves, but the hybrid function goes on without the file
\* having been written.
WriteDBLater(t) ==
  /\ task[t].pc = "writeDB"
  /\ task' = [task EXCEPT ![t].db = <<>>, ![t].pc = "testConnection"]
  /\ UNCHANGED <<regVars, ev, dedupVars, dbUp, mysqlRows, jsonFile, isOnline,
                 syncQueue, writes, lastWrite, lastLocal>>

\* writeDB resolves: the file holds what the call wrote; the hybrid function
\* goes on to await checkMySQLHealth, which awaits testConnection.
WriteDB(t) ==
  /\ task[t].pc = "writeDB"
  /\ jsonFile' = task[t].db
  /\ lastLocal' = [lastLocal EXCEPT ![task[t].userId] = task[t].subscription]
  /\ task' = [task EXCEPT ![t].db = <<>>, ![t].pc = "testConnection"]
  /\ UNCHANGED <<regVars, ev, dedupVars, dbUp, mysqlRows, isOnline, syncQueue,
                 writes, lastWrite>>

\* checkMySQLHealth without the assignment isOnline = result.success.
CheckMySQLHealthKeepsFlag(t) ==
  /\ task[t].pc = "testConnection"
  /\ Becomes(AfterCheck(Store, t))
  /\ UNCHANGED <<regVars, ev, dedupVars, dbUp, mysqlRows, jsonFile, writes,
                 lastLocal>>

\* testConnection resolves inside checkMySQLHealth.
CheckMySQLHealth(t) ==
  /\ task[t].pc = "testConnection"
  /\ LET wasOffline == ~isOnline
         st == [Store EXCEPT !.isOnline = dbUp]
     IN Becomes(IF wasOffline /\ st.isOnline
                  THEN SyncOfflineData(st, t, "check")
                  ELSE AfterCheck(st, t))
  /\ UNCHANGED <<regVars, ev, dedupVars, dbUp, mysqlRows, jsonFile, writes,
                 lastLocal>>

\* A statement of mysqlDB.addSubscription / removeSubscription, called by the
\* hybrid function, resolves or throws.
MysqlStatement(t) ==
  /\ task[t].pc \in MysqlPcs
  /\ LET me == task[t]
         ok == dbUp /\ (me.pc = "mysql-insert" => ~DuplicateKey(mysqlRows, me.userId))
     IN /\ mysqlRows' = IF ~ok THEN mysqlRows
                        ELSE IF me.pc = "mysql-insert"
                          THEN RowsWith(mysqlRows, me.userId, me.subscription)
                          ELSE RowsWithout(mysqlRows, me.userId)
        /\ Becomes(IF ok
                     THEN IF me.pc = "mysql-delete"
                            THEN SetPc(Store, t, "mysql-insert")
                            ELSE Return(Store, t, IF me.op = "add" THEN "mysqlResult"
                                                                   ELSE "undefined")
                     ELSE Return(AddToSyncQueue(Store, t, me.op, me.userId, me.subscription),
                                 t, IF me.op = "add" THEN "jsonResult" ELSE "undefined"))
  /\ UNCHANGED <<regVars, ev, dedupVars, dbUp, jsonFile, writes, lastLocal>>

\* A statement of a replayed operation resolves or throws inside the loop of
\* syncOfflineData.
SyncStatement(t) ==
  /\ task[t].pc \in SyncPcs
  /\ LET me == task[t]
         operation == SyncArray(Store, t)[me.idx]
         ok == dbUp /\ (me.pc = "sync-insert" => ~DuplicateKey(mysqlRows, operation.userId))
     IN /\ mysqlRows' = IF ~ok THEN mysqlRows
                        ELSE IF me.pc = "sync-insert"
                          THEN RowsWith(mysqlRows, operation.userId, operation.subscription)
                          ELSE RowsWithout(mysqlRows, operation.userId)
        /\ Becomes(IF ok /\ me.pc = "sync-delete"
                     THEN SetPc(Store, t, "sync-insert")
                     ELSE NextOperation(Store, t))
  /\ UNCHANGED <<regVars, ev, dedupVars, dbUp, jsonFile, writes, lastLocal>>

\* The records a read returns: the first record of the user (find, rows[0]),
\* or every record.
Found(records, op, userId) ==
  LET hits == {i \in 1..Len(records) : op = "getAll" \/ records[i].userId = userId}
  IN IF op = "getAll"
       THEN {records[i] : i \in hits}
       ELSE {records[i] : i \in {j \in hits : \A k \in hits : j <= k}}

\* The read in slot t returns the records it found in the source; in
\* sendPushNotification the record found is handed to webpush, and without a
\* record the call returns {success: false}.
ReturnRead(st, t, source, records) ==
  LET me == st.task[t]
      found == Found(records, me.op, me.userId)
  IN IF me.op \in PushOps /\ found # {}
       THEN [st EXCEPT !.task[t] =
               [NoTask EXCEPT !.op = me.op, !.pc = "webpush", !.userId = me.userId,
                              !.subscription = (CHOOSE r \in found : TRUE).subscription]]
       ELSE [st EXCEPT !.task[t] =
               [NoTask EXCEPT !.ret = [op |-> me.op, userId |-> me.userId,
                                       source |-> source, rows |-> found]]]

\* hybrid getSubscription(userId) is called: it awaits checkMySQLHealth.
GetSubscription(t, userId) ==
  /\ task[t].pc = "idle"
  /\ task' = [task EXCEPT ![t] = [NoTask EXCEPT !.op = "get", !.pc = "testConnection",
                                                !.userId = userId]]
  /\ UNCHANGED <<regVars, ev, dedupVars, dbUp, mysqlRows, jsonFile, isOnline,
                 syncQueue, writes, lastWrite, lastLocal>>

\* hybrid getAllSubscriptions() is called.
GetAllSubscriptions(t) ==
  /\ task[t].pc = "idle"
  /\ task' = [task EXCEPT ![t] = [NoTask EXCEPT !.op = "getAll",
                                                !.pc = "testConnection"]]
  /\ UNCHANGED <<regVars, ev, dedupVars, dbUp, mysqlRows, jsonFile, isOnline,
                 syncQueue, writes, lastWrite, lastLocal>>

\* The SELECT rejects and the rejection goes to the caller of the read.
MysqlSelectThrows(t) ==
  /\ task[t].pc \in SelectPcs
  /\ Becomes(IF dbUp /\ (task[t].op = "getAll"
                            \/ Found(mysqlRows, task[t].op, task[t].userId) # {})
               THEN ReturnRead(Store, t, "mysql", mysqlRows)
               ELSE IF dbUp THEN SetPc(Store, t, "readDB")
               ELSE ReturnRead(Store, t, "error", <<>>))
  /\ UNCHANGED <<regVars, ev, dedupVars, dbUp, mysqlRows, jsonFile, writes,
                 lastLocal>>

\* The SELECT of mysqlDB.getSubscription / getAllSubscriptions resolves or
\* throws: the MySQL result is returned, or the read falls back to jsonDB
\* (getSubscription also when MySQL has no row for the user).
MysqlSelect(t) ==
  /\ task[t].pc \in SelectPcs
  /\ Becomes(IF dbUp /\ (task[t].op = "getAll"
                            \/ Found(mysqlRows, task[t].op, task[t].userId) # {})
               THEN ReturnRead(Store, t, "mysql", mysqlRows)
               ELSE SetPc(Store, t, "readDB"))
  /\ UNCHANGED <<regVars, ev, dedupVars, dbUp, mysqlRows, jsonFile, writes,
                 lastLocal>>

\* readDB resolves for jsonDB.getSubscription / getAllSubscriptions.
JsonRead(t) ==
  /\ task[t].pc = "readDB"
  /\ task[t].op \in ReadOps \cup PushOps
  /\ Becomes(ReturnRead(Store, t, "json", jsonFile))
  /\ UNCHANGED <<regVars, ev, dedupVars, dbUp, mysqlRows, jsonFile, writes,
                 lastLocal>>

\* sendPushNotification(userId, payload) is called: it awaits
\* hybridDB.getSubscription(userId).
SendPushNotification(t, userId) ==
  /\ task[t].pc = "idle"
  /\ writes < MaxWrites
  /\ writes' = writes + 1
  /\ task' = [task EXCEPT ![t] = [NoTask EXCEPT !.op = "push", !.pc = "testConnection",
                                                !.userId = userId]]
  /\ UNCHANGED <<regVars, ev, dedupVars, dbUp, mysqlRows, jsonFile, isOnline,
                 syncQueue, lastWrite, lastLocal>>

\* A delivery whose every failure makes the call remove the subscription.
WebPushRemovesOnFailure(t, status) ==
  /\ task[t].pc = "webpush"
  /\ task' = [task EXCEPT ![t] =
                IF status # "201"
                  THEN [NoTask EXCEPT !.op = "remove", !.pc = "readDB",
                                      !.userId = task[t].userId, !.cause = "gone",
                                      !.racing = Racing(task[t].userId)]
                  ELSE [NoTask EXCEPT !.ret = [op |-> "push", userId |-> task[t].userId,
                                               source |-> status, rows |-> {}]]]
  /\ UNCHANGED <<regVars, ev, dedupVars, dbUp, mysqlRows, jsonFile, isOnline,
                 syncQueue, writes, lastWrite, lastLocal>>

\* webpush.sendNotification resolves or rejects: on 410 or 404 the catch
\* block awaits hybridDB.removeSubscription(userId); otherwise the call
\* returns its result.
WebPush(t, status) ==
  /\ task[t].pc = "webpush"
  /\ task' = [task EXCEPT ![t] =
                IF status \in GoneStatuses
                  THEN [NoTask EXCEPT !.op = "remove", !.pc = "readDB",
                                      !.userId = task[t].userId, !.cause = "gone",
                                      !.racing = Racing(task[t].userId)]
                  ELSE [NoTask EXCEPT !.ret = [op |-> "push", userId |-> task[t].userId,
                                               source |-> status, rows |-> {}]]]
  /\ UNCHANGED <<regVars, ev, dedupVars, dbUp, mysqlRows, jsonFile, isOnline,
                 syncQueue, writes, lastWrite, lastLocal>>

\* Users whose last write returned with its operation in the queue.
QueuedUsers == {u \in StoreUsers : lastWrite[u].queued}

\* The setInterval callback: checkMySQLHealth().
HealthTimer ==
  /\ task[HealthTask].pc = "idle"
  /\ task' = [task EXCEPT ![HealthTask] =
                [NoTask EXCEPT !.op = "health", !.pc = "testConnection",
                               !.cover = QueuedUsers]]
  /\ UNCHANGED <<regVars, ev, dedupVars, dbUp, mysqlRows, jsonFile, isOnline,
                 syncQueue, writes, lastWrite, lastLocal>>

\* forcSync() is called.
ForcSync ==
  /\ task[ForceTask].pc = "idle"
  /\ task' = [task EXCEPT ![ForceTask] =
                [NoTask EXCEPT !.op = "force", !.pc = "testConnection",
                               !.cover = QueuedUsers]]
  /\ UNCHANGED <<regVars, ev, dedupVars, dbUp, mysqlRows, jsonFile, isOnline,
                 syncQueue, writes, lastWrite, lastLocal>>

(* ------------------------- the specifications -------------------------- *)

Init == InitReg /\ InitDedup /\ InitStore

Next ==
  \/ \E c \in Conns : Connect(c)
  \/ \E c \in Conns : Disconnect(c)
  \/ \E c \in Conns, u \in UserIds \cup {Falsy} : JoinUserRoom(c, u)
  \/ \E c \in Conns, u \in UserIds \cup {Falsy}, k \in CompanyIds \cup {Falsy} :
       JoinCompanyRoom(c, u, k)
  \/ \E c \in Conns, k \in CompanyIds \cup {Falsy} : JoinWaiterRoom(c, k)
  \/ \E b \in BOOLEAN, k \in CompanyIds \cup {Falsy}, u \in UserIds \cup {Falsy},
        p \in BOOLEAN : ContentRefresh(b, k, u, p)
  \/ \E c \in Conns : CallWaiter(c)
  \/ \E c \in Conns, k \in CompanyIds \cup {Falsy} : RequestCall(c, k)
  \/ \E c \in Conns, k \in CompanyIds \cup {Falsy} : CancelCallRequest(c, k)

Spec == Init /\ [][Next]_vars

\* Connections and the three join handlers alone.
NextJoins ==
  \/ \E c \in Conns : Connect(c)
  \/ \E c \in Conns : Disconnect(c)
  \/ \E c \in Conns, u \in UserIds \cup {Falsy} : JoinUserRoom(c, u)
  \/ \E c \in Conns, u \in UserIds \cup {Falsy}, k \in CompanyIds \cup {Falsy} :
       JoinCompanyRoom(c, u, k)
  \/ \E c \in Conns, k \in CompanyIds \cup {Falsy} : JoinWaiterRoom(c, k)

SpecJoins == Init /\ [][NextJoins]_vars

\* Waiters: the waiter rooms, the bell and the call requests.
NextWaiters ==
  \/ \E c \in Conns : Connect(c)
  \/ \E c \in Conns : Disconnect(c)
  \/ \E c \in Conns, k \in CompanyIds \cup {Falsy} : JoinWaiterRoom(c, k)
  \/ \E c \in Conns : CallWaiter(c)
  \/ \E c \in Conns, k \in CompanyIds \cup {Falsy} : RequestCall(c, k)
  \/ \E c \in Conns, k \in CompanyIds \cup {Falsy} : CancelCallRequest(c, k)

SpecWaiters == Init /\ [][NextWaiters]_vars

\* Initialisation: initSocket called again and again, from module load on,
\* around connections, joins and signaling.
NextInit ==
  \/ InitSocket
  \/ \E c \in Conns : Connect(c)
  \/ \E c \in Conns : Disconnect(c)
  \/ \E c \in Conns, u \in UserIds : JoinUserRoom(c, u)
  \/ \E c \in Conns, kind \in SignalKinds, u \in UserIds : Signal(c, kind, u)

InitLoad == InitModule /\ InitDedup /\ InitStore

SpecInit == InitLoad /\ [][NextInit]_vars

\* Signaling: user rooms, the four relayed events, and notifications that
\* fill the dedup cache.
NextSignal ==
  \/ \E c \in Conns : Connect(c)
  \/ \E c \in Conns : Disconnect(c)
  \/ \E c \in Conns, u \in UserIds : JoinUserRoom(c, u)
  \/ \E c \in Conns, kind \in SignalKinds, u \in UserIds : Signal(c, kind, u)
  \/ \E r \in RetryRequests : SendToUser(r[1], r[2]) /\ UNCHANGED prevNotif

SpecSignal == Init /\ [][NextSignal]_vars

\* Three connections, user and company rooms, and the dispatches that
\* report a client count: the content refresh, the notification sent over a
\* socket and the notification sent over HTTP.
NextScope ==
  \/ \E c \in RoomConns : Connect(c)
  \/ \E c \in RoomConns : Disconnect(c)
  \/ \E c \in RoomConns, r \in RetryRequests : JoinUserRoom(c, r[1])
  \/ \E c \in RoomConns, r \in RetryRequests, k \in CompanyIds :
       JoinCompanyRoom(c, r[1], k)
  \/ \E k \in CompanyIds \cup {Falsy}, u \in UserIds \cup {Falsy} :
       ContentRefresh(FALSE, k, u, TRUE)
  \/ \E c \in RoomConns, r \in RetryRequests :
       SendNotification(c, r[1], r[2]) /\ UNCHANGED prevNotif
  \/ \E r \in RetryRequests : ApiNotificationSend(r[1], r[2]) /\ UNCHANGED prevNotif

SpecScope == Init /\ [][NextScope]_vars

\* Notifications: user rooms, the three notification paths, the clock and
\* the sweep.
NextDedup ==
  \/ \E c \in NotifConns : Connect(c)
  \/ \E c \in NotifConns : Disconnect(c)
  \/ \E c \in NotifConns, u \in NotifTargets \cup {Falsy} : JoinUserRoom(c, u)
  \/ \E c \in NotifConns, r \in NotifRequests \cup BadRequests :
       SendNotification(c, r[1], r[2]) /\ UNCHANGED prevNotif
  \/ \E r \in NotifRequests : SendToUser(r[1], r[2]) /\ UNCHANGED prevNotif
  \/ \E r \in NotifRequests \cup BadRequests :
       ApiNotificationSend(r[1], r[2]) /\ UNCHANGED prevNotif
  \/ Tick(MaxTime)
  \/ Sweep

SpecDedup == Init /\ [][NextDedup]_vars

\* Retries: one notification sent again and again over each path.
NextRetry ==
  \/ \E c \in NotifConns : Connect(c)
  \/ \E c \in NotifConns : Disconnect(c)
  \/ \E c \in NotifConns, u \in UserIds : JoinUserRoom(c, u)
  \/ \E c \in NotifConns, r \in RetryRequests :
       SendNotification(c, r[1], r[2]) /\ Track("send-notification", r[1], r[2])
  \/ \E r \in RetryRequests : SendToUser(r[1], r[2]) /\ Track("sendToUser", r[1], r[2])
  \/ \E r \in RetryRequests :
       ApiNotificationSend(r[1], r[2]) /\ Track("api-notification", r[1], r[2])
  \/ Tick(RetryTime)
  \/ Sweep

SpecRetry == Init /\ [][NextRetry]_vars

\* The cache alone: notifications recorded by sendToUser, the clock and the
\* sweep timer.
NextCache ==
  \/ \E r \in NotifRequests : SendToUser(r[1], r[2]) /\ UNCHANGED prevNotif
  \/ Tick(SweepTime)
  \/ Sweep

SpecCache == Init /\ [][NextCache]_vars

\* The subscription store: writers, the health check and the forced sync.
NextStore ==
  \/ DbFail
  \/ DbRecover
  \/ \E t \in SoloClients, u \in StoreUsers, sub \in Subscriptions : AddSubscription(t, u, sub)
  \/ \E t \in SoloClients, u \in StoreUsers : RemoveSubscription(t, u)
  \/ \E t \in SoloClients : ReadDB(t)
  \/ \E t \in SoloClients : WriteDB(t)
  \/ \E t \in SoloClients : LocalFailure(t)
  \/ \E t \in Tasks : CheckMySQLHealth(t)
  \/ \E t \in SoloClients : MysqlStatement(t)
  \/ \E t \in Tasks : SyncStatement(t)
  \/ HealthTimer
  \/ ForcSync

SpecStore == Init /\ [][NextStore]_vars

\* Concurrent writers, the MySQL server answering throughout.
NextWriters ==
  \/ \E t \in Clients, u \in StoreUsers, sub \in Subscriptions : AddSubscription(t, u, sub)
  \/ \E t \in Clients, u \in StoreUsers : RemoveSubscription(t, u)
  \/ \E t \in Clients : ReadDB(t)
  \/ \E t \in Clients : WriteDB(t)
  \/ \E t \in Tasks : CheckMySQLHealth(t)
  \/ \E t \in Clients : MysqlStatement(t)

SpecWriters == Init /\ [][NextWriters]_vars

\* One caller that writes and reads, MySQL going down and coming back, and
\* the health check made at module load.
NextReads ==
  \/ DbFail
  \/ DbRecover
  \/ \E t \in SoloClients, u \in StoreUsers, sub \in Subscriptions : AddSubscription(t, u, sub)
  \/ \E t \in SoloClients, u \in StoreUsers : RemoveSubscription(t, u)
  \/ \E t \in SoloClients, u \in StoreUsers : GetSubscription(t, u)
  \/ \E t \in SoloClients : GetAllSubscriptions(t)
  \/ \E t \in SoloClients : ReadDB(t)
  \/ \E t \in SoloClients : WriteDB(t)
  \/ \E t \in SoloClients : JsonRead(t)
  \/ \E t \in SoloClients : LocalFailure(t)
  \/ \E t \in Tasks : CheckMySQLHealth(t)
  \/ \E t \in SoloClients : MysqlStatement(t)
  \/ \E t \in SoloClients : MysqlSelect(t)
  \/ \E t \in Tasks : SyncStatement(t)

SpecReads == Init /\ [][NextReads]_vars

\* One caller that subscribes users and sends them push notifications,
\* MySQL going down and coming back, and the health check made at module
\* load.
NextPush ==
  \/ DbFail
  \/ DbRecover
  \/ \E t \in SoloClients, u \in StoreUsers, sub \in Subscriptions : AddSubscription(t, u, sub)
  \/ \E t \in SoloClients, u \in StoreUsers : SendPushNotification(t, u)
  \/ \E t \in SoloClients, status \in PushStatuses : WebPush(t, status)
  \/ \E t \in SoloClients : ReadDB(t)
  \/ \E t \in SoloClients : WriteDB(t)
  \/ \E t \in SoloClients : JsonRead(t)
  \/ \E t \in SoloClients : LocalFailure(t)
  \/ \E t \in Tasks : CheckMySQLHealth(t)
  \/ \E t \in SoloClients : MysqlStatement(t)
  \/ \E t \in SoloClients : MysqlSelect(t)
  \/ \E t \in Tasks : SyncStatement(t)

SpecPush == Init /\ [][NextPush]_vars

(* ----------------------- registry and fan-out -------------------------- *)

JoinKinds == {"join-user-room", "join-company-room", "join-waiter-room"}

\* C1: once a socket's join request for a room has been handled the room's
\* member set contains the socket, and a socket that has disconnected is in
\* the member set of no room, whatever it had joined before.
C1_JoinedThenRemoved ==
  /\ (ev.kind \in JoinKinds /\ ev.reply # "join-error")
       => /\ ev.scopes # {}
          /\ \A r \in ev.scopes : ev.conn \in Members(rooms, r)
  /\ \A c \in Conns \ live : \A r \in DOMAIN rooms : c \notin rooms[r]

\* A socket that was in a user room, a company room and both waiter rooms
\* has just disconnected.
C1_Witness ==
  /\ ev.kind = "disconnect"
  /\ Cardinality(ev.scopes) >= 4
  /\ ev.conn \notin live

\* C2: a content refresh aimed at a user room or a company room is emitted
\* to exactly the sockets that are members of that room, and a broadcast
\* refresh to every connected socket, whatever rooms they are in.
C2_ScopedDispatch ==
  (ev.kind = "content-refresh" /\ ev.reply \in {"200", "200-all"})
    => IF ev.reply = "200-all"
         THEN Receivers = live
         ELSE \E r \in ev.scopes :
                /\ ev.scopes = {r}
                /\ Receivers = Members(rooms, r)

\* A company refresh reached a member while another connected socket, which
\* is in other rooms only, got nothing.
C2_Witness ==
  /\ ev.kind = "content-refresh"
  /\ ev.reply = "200"
  /\ \E r \in ev.scopes : r \in {CompanyRoom(k) : k \in CompanyIds}
  /\ Receivers # {}
  /\ \E c \in live \ Receivers : RoomsOf(rooms, c) # {}

\* C3: no socket is sent more than one copy of a single inbound event.
C3_AtMostOneCopy == \A c \in Conns : ev.copies[c] <= 1


NotifKinds == {"send-notification", "sendToUser", "api-notification"}

\* C4: a notification whose fingerprint is in the cache is refused while the
\* entry is younger than the retention window and admitted again once the
\* window has elapsed, whether or not the sweep has run since.
C4_AdmitWindow ==
  (ev.kind \in NotifKinds /\ ev.heldFor >= 0)
    => ((ev.reply \in AdmittedReplies) <=> (ev.heldFor >= RetentionWindow))

\* C5: a notification with the target and message of one admitted less than
\* the retention window ago on the same path is delivered to no connection.
C5_RetryNotDelivered ==
  (ev.kind \in NotifKinds /\ ev.repeat) => Receivers = {}

\* The subscriptions the local store and the durable store hold for a user.
LocalOf(u) ==
  {jsonFile[i].subscription : i \in {j \in 1..Len(jsonFile) : jsonFile[j].userId = u}}

DurableOf(u) ==
  {mysqlRows[i].subscription : i \in {j \in 1..Len(mysqlRows) : mysqlRows[j].userId = u}}

\* What a store holds for the user once the write is applied to it.
Applied(w) == IF w.type = "add" THEN {w.subscription} ELSE {}

\* No call is in progress.
Quiet == \A t \in Tasks : task[t].pc = "idle"

\* C6: a write that returned without having been applied to the durable store
\* is in the local store (as long as no later write of the user is under
\* way), and it is in the durable store once a health check or a forced sync
\* that began after it has returned successfully and nothing is in progress.
C6_QueuedWriteApplied ==
  \A u \in StoreUsers :
    lastWrite[u].queued =>
      /\ (\A t \in Tasks : task[t].userId # u) => LocalOf(u) = Applied(lastWrite[u])
      /\ (lastWrite[u].healed /\ Quiet) => DurableOf(u) = Applied(lastWrite[u])

\* C7: when a write that found the store healthy returns after its MySQL
\* statement has failed, the store is degraded and the operation is the last
\* entry of the sync queue.
C7_FailureDegrades ==
  [][\A t \in Clients :
       (task[t].pc \in MysqlPcs /\ task'[t].pc = "idle" /\ task'[t].op = "none"
          /\ lastWrite'[task[t].userId].queued)
         => /\ ~isOnline'
            /\ syncQueue' # <<>>
            /\ syncQueue'[Len(syncQueue')] =
                 Operation(task[t].op, task[t].userId, task[t].subscription)]_vars

\* C8: when the store is healthy, the sync queue is empty and no call is in
\* progress, the durable store and the local store hold the same record, or
\* none, for every user.
C8_StoresAgree ==
  (isOnline /\ syncQueue = <<>> /\ Quiet)
    => \A u \in StoreUsers : DurableOf(u) = LocalOf(u)

\* C9: when no local read or write is outstanding, the local store holds for
\* every user what the local write of that user that completed last left.
C9_NoLostLocalWrite ==
  (\A t \in Tasks : task[t].pc \notin {"readDB", "writeDB"})
    => \A u \in StoreUsers :
         LocalOf(u) = IF lastLocal[u] = "" THEN {} ELSE {lastLocal[u]}

\* C10: at most one statement sent to MySQL by the hybrid store (probe, write
\* or replayed operation) is outstanding.
C10_OneDurableOperation ==
  Cardinality({t \in Tasks : task[t].pc \in DurablePcs}) <= 1

\* Two queue entries are the same operation.
SameOperation(a, b) ==
  a.type = b.type /\ a.userId = b.userId /\ a.subscription = b.subscription

\* C11: an entry leaves the sync queue only after a replay has sent it to
\* MySQL, whatever was enqueued while replays were in progress.
C11_RemovedOnlyAfterReplay ==
  [][\A i \in 1..Len(syncQueue) :
       \/ i <= Len(syncQueue') /\ SameOperation(syncQueue'[i], syncQueue[i])
       \/ syncQueue[i].tries >= 1]_vars

\* The array the loop of slot t iterates, in the current state.
SyncArrayOf(t) == SyncArray(Store, t)

\* C12: the queue keeps the order of enqueueing, and a replay pass sends the
\* operations of its array one at a time from the first on: while it waits
\* for operation idx, every earlier one has been sent and has resolved.
C12_ReplayInOrder ==
  [][/\ Len(syncQueue') > Len(syncQueue)
          => \A i \in 1..Len(syncQueue) : SameOperation(syncQueue'[i], syncQueue[i])
     /\ \A t \in Tasks :
          task'[t].pc \in SyncPcs
            => /\ task'[t].idx \in 1..Len(SyncArrayOf(t)')
               /\ \A j \in 1..(task'[t].idx) : SyncArrayOf(t)'[j].tries >= 1
               /\ task[t].pc \notin SyncPcs => task'[t].idx = 1
               /\ task[t].pc \in SyncPcs
                    => /\ task'[t].idx \in {task[t].idx, task[t].idx + 1}
                       /\ \A j \in 1..task[t].idx :
                            SameOperation(SyncArrayOf(t)'[j], SyncArrayOf(t)[j])]_vars

\* A pass is waiting for the second of two operations of different users.
C12_Witness ==
  \E t \in Tasks :
    /\ task[t].pc \in SyncPcs
    /\ task[t].idx = 2
    /\ SyncArrayOf(t)[1].userId # SyncArrayOf(t)[2].userId

\* C13: every queue entry is sent to MySQL at most once, in the queue and in
\* the array a pass still iterates.
C13_AttemptedAtMostOnce ==
  /\ \A i \in 1..Len(syncQueue) : syncQueue[i].tries <= 1
  /\ \A t \in Tasks : \A i \in 1..Len(task[t].arr) : task[t].arr[i].tries <= 1

\* C14: when the sync queue is not empty the store is degraded or a replay
\* pass is in progress.
C14_QueueOnlyWhileDegraded ==
  syncQueue # <<>> => (~isOnline \/ \E t \in Tasks : task[t].pc \in SyncPcs)

\* C15: a write sends its first request to MySQL (the probe) only in the step
\* in which writeDB resolves with the local file holding what the write
\* wrote; and when the local read or write fails, the call ends with no row
\* changed and no queue entry made.
C15_LocalFirst ==
  [][\A t \in Clients :
       task[t].op \in WriteOps =>
         /\ (task[t].pc \notin DurablePcs /\ task'[t].pc \in DurablePcs)
              => /\ task[t].pc = "writeDB"
                 /\ jsonFile' = task[t].db
                 /\ LocalOf(task[t].userId)' = Applied([type |-> task[t].op,
                                                        subscription |-> task[t].subscription])
         /\ (task[t].pc \in {"readDB", "writeDB"} /\ task'[t].pc = "idle")
              => mysqlRows' = mysqlRows /\ syncQueue' = syncQueue]_vars

\* A write that replaces a record is waiting for its probe: the local file
\* holds the new record and the table holds the old one.
C15_Witness ==
  \E t \in Clients :
    /\ task[t].op = "add"
    /\ task[t].pc = "testConnection"
    /\ LocalOf(task[t].userId) = {task[t].subscription}
    /\ DurableOf(task[t].userId) # {}
    /\ DurableOf(task[t].userId) # {task[t].subscription}

\* C16: when the probe of a write fails, the write ends in that step with
\* exactly one entry for its operation appended to the sync queue and no
\* statement sent to MySQL.
C16_OfflineWriteQueuedOnce ==
  [][\A t \in Clients :
       (task[t].op \in WriteOps /\ task[t].pc = "testConnection" /\ ~dbUp
          /\ task'[t] # task[t])
         => /\ syncQueue' = Append(syncQueue, Operation(task[t].op, task[t].userId,
                                                        task[t].subscription))
            /\ task'[t].pc = "idle"
            /\ mysqlRows' = mysqlRows]_vars

\* Two writes made while MySQL was down: both are queued, the store is
\* degraded and the table is untouched.
C16_Witness ==
  /\ ~dbUp
  /\ ~isOnline
  /\ Len(syncQueue) = 2
  /\ mysqlRows = <<>>
  /\ \A i \in 1..2 : syncQueue[i].tries = 0
  /\ Quiet

\* C17: getSubscription and getAllSubscriptions never surface a failure of
\* MySQL to their caller: a read whose probe fails, or whose SELECT fails
\* after a successful probe, goes on to read the local store, and what it
\* then returns is the content of the local store; no read returns an error
\* of the durable store.
C17_ReadFallsBack ==
  [][\A t \in SoloClients :
       task[t].op \in ReadOps =>
         /\ (task[t].pc \in {"testConnection"} \cup SelectPcs /\ ~dbUp
               /\ task'[t] # task[t])
              => task'[t].pc = "readDB"
         /\ (task[t].pc = "readDB" /\ task'[t].ret # NoResult)
              => /\ task'[t].ret.source = "json"
                 /\ task'[t].ret.rows = Found(jsonFile, task[t].op, task[t].userId)
         /\ task'[t].ret.source # "error"]_vars

\* A getAllSubscriptions whose probe succeeded and whose SELECT failed has
\* returned the records of the local store.
C17_Witness ==
  \E t \in SoloClients :
    /\ task[t].pc = "idle"
    /\ task[t].ret.op = "getAll"
    /\ task[t].ret.source = "json"
    /\ task[t].ret.rows # {}
    /\ isOnline
    /\ ~dbUp

\* The positions of the records of a user in a store.
RecordsOf(records, userId) == {i \in 1..Len(records) : records[i].userId = userId}

\* C18: in every state the local file and the MySQL table each hold at most
\* one subscription record per user, also after repeated and concurrent
\* addSubscription calls for the same user; an add that a store accepts
\* leaves the new subscription as the user's only record in that store.
C18_OneRecordPerUser ==
  [][/\ \A u \in StoreUsers :
          /\ Cardinality(RecordsOf(jsonFile', u)) <= 1
          /\ Cardinality(RecordsOf(mysqlRows', u)) <= 1
     /\ \A t \in Clients, u \in StoreUsers, sub \in Subscriptions :
          (task[t].op = "add" /\ task[t].userId = u /\ task[t].subscription = sub) =>
            /\ (task[t].pc = "writeDB" /\ task'[t].pc = "testConnection")
                 => LocalOf(u)' = {sub}
            /\ (task[t].pc = "mysql-insert" /\ task'[t] # task[t]
                  /\ mysqlRows' # mysqlRows)
                 => DurableOf(u)' = {sub}]_vars

\* Two concurrent adds for one user with different subscriptions have both
\* returned: the table refused the second INSERT, each store holds one record.
C18_Witness ==
  /\ Quiet
  /\ Len(jsonFile) = 1
  /\ Len(mysqlRows) = 1
  /\ Len(syncQueue) = 1
  /\ syncQueue[1].type = "add"
  /\ syncQueue[1].userId = mysqlRows[1].userId
  /\ syncQueue[1].subscription # mysqlRows[1].subscription

\* The table after one replay of an operation that MySQL accepts.
Replayed(rows, type, userId, subscription) ==
  IF type = "add"
    THEN RowsWith(RowsWithout(rows, userId), userId, subscription)
    ELSE RowsWithout(rows, userId)

\* The loop of slot t takes a step.
LoopStep(t) == task'[t].pc # task[t].pc \/ task'[t].idx # task[t].idx

\* C19: replaying a sync-queue entry twice leaves the durable store as
\* replaying it once does: on every table the program reaches, a second
\* replay of any operation changes nothing, and when a loop completes the
\* second replay of an entry while MySQL answers, the user has exactly one
\* row after an add (the entry's subscription if the INSERT was accepted) and
\* no row after a remove.
C19_ReplayTwiceAsOnce ==
  [][/\ \A type \in WriteOps, u \in StoreUsers, sub \in Subscriptions :
          Replayed(Replayed(mysqlRows', type, u, sub), type, u, sub)
            = Replayed(mysqlRows', type, u, sub)
     /\ \A t \in Tasks, u \in StoreUsers, sub \in Subscriptions \cup {""} :
          (/\ task[t].pc \in SyncPcs
           /\ SyncArrayOf(t)[task[t].idx].tries >= 2
           /\ SyncArrayOf(t)[task[t].idx].userId = u
           /\ SyncArrayOf(t)[task[t].idx].subscription = sub
           /\ LoopStep(t)
           /\ dbUp) =>
             /\ task[t].pc = "sync-insert"
                  => /\ Cardinality(RecordsOf(mysqlRows', u)) = 1
                     /\ mysqlRows' # mysqlRows => DurableOf(u)' = {sub}
             /\ task[t].pc = "sync-remove" => RecordsOf(mysqlRows', u) = {}]_vars

\* Two loops have both replayed the first entry of the queue, an add, and
\* both are at the second entry: the user of the first entry has one row.
C19_Witness ==
  \E t1, t2 \in Tasks :
    /\ t1 # t2
    /\ task[t1].pc \in SyncPcs /\ task[t1].idx = 2
    /\ task[t2].pc \in SyncPcs /\ task[t2].idx = 2
    /\ SyncArrayOf(t1)[1].type = "add"
    /\ SyncArrayOf(t1)[1].tries = 2
    /\ DurableOf(SyncArrayOf(t1)[1].userId) = {SyncArrayOf(t1)[1].subscription}
    /\ Cardinality(RecordsOf(mysqlRows, SyncArrayOf(t1)[1].userId)) = 1

\* C20: read-after-write: once addSubscription(u, s) has returned and no
\* later write of u has, a getSubscription(u) that returns gives the record of
\* u carrying s, and a getAllSubscriptions that returns includes a record of
\* u, whether or not MySQL was reachable at either call.
C20_ReadAfterWrite ==
  \A t \in SoloClients, u \in StoreUsers :
    (task[t].pc = "idle" /\ lastWrite[u].type = "add") =>
      /\ (task[t].ret.op = "get" /\ task[t].ret.userId = u)
           => task[t].ret.rows = {[userId |-> u, subscription |-> lastWrite[u].subscription]}
      /\ task[t].ret.op = "getAll" => \E r \in task[t].ret.rows : r.userId = u

\* C21: once removeSubscription(u) has returned and no later write of u has,
\* a getSubscription(u) that returns gives no record and a
\* getAllSubscriptions that returns has no record of u, also when the DELETE
\* failed or MySQL was unreachable during the remove.
C21_ReadAfterRemove ==
  \A t \in SoloClients, u \in StoreUsers :
    (task[t].pc = "idle" /\ lastWrite[u].type = "remove") =>
      /\ (task[t].ret.op = "get" /\ task[t].ret.userId = u) => task[t].ret.rows = {}
      /\ task[t].ret.op = "getAll" => \A r \in task[t].ret.rows : r.userId # u

\* The user rooms a socket is a member of.
UserRoomsOf(rs, c) ==
  {UserRoom(u) : u \in {v \in UserIds : c \in Members(rs, UserRoom(v))}}

\* C22: in every state a connection is a member of at most one user room:
\* a join-user-room by a connection that had joined another user takes it
\* out of that user's room and leaves it in the new user's room only.
C22_OneUserRoom ==
  [][\A c \in Conns :
       /\ Cardinality(UserRoomsOf(rooms', c)) <= 1
       /\ (ev'.kind = "join-user-room" /\ ev'.conn = c /\ ev'.reply = "joined-room")
            => UserRoomsOf(rooms', c) = ev'.scopes]_vars

\* A connection that was in one user's room has joined another user.
C22_Witness ==
  /\ ev.kind = "join-user-room"
  /\ ev.left # {}
  /\ ev.left # ev.scopes
  /\ UserRoomsOf(rooms, ev.conn) = ev.scopes

\* The company rooms and waiter rooms.
OrgRooms ==
  {CompanyRoom(k) : k \in CompanyIds} \cup {WaiterRoom(k) : k \in CompanyIds}
    \cup {GlobalWaiters}

\* C23: a connection may hold several company and waiter scopes at once: a
\* join leaves the connection in every company room and waiter room it was
\* in and adds the room it names, so that after joining company A and then
\* company B the connection is a member of both.
C23_ManyOrgScopes ==
  [][\A c \in Conns :
       (ev'.kind \in JoinKinds /\ ev'.conn = c /\ ev'.reply # "join-error") =>
         /\ \A r \in OrgRooms : c \in Members(rooms, r) => c \in Members(rooms', r)
         /\ \A r \in ev'.scopes : c \in Members(rooms', r)]_vars

\* A join request of socket c that lacks an identifier its handler requires.
MalformedJoin(c) ==
  \/ JoinUserRoom(c, Falsy)
  \/ \E u \in UserIds \cup {Falsy}, k \in CompanyIds \cup {Falsy} :
       (u = Falsy \/ k = Falsy) /\ JoinCompanyRoom(c, u, k)
  \/ JoinWaiterRoom(c, Falsy)

\* C24: a join request that lacks its required identifier (join-user-room
\* without user id, join-company-room without user id or company id,
\* join-waiter-room without company id) is answered with an error event to
\* the requesting connection and changes no room membership, no
\* per-connection field and no entry of the user-to-connection map.
C24_MalformedJoinRejected ==
  [][\A c \in Conns :
       MalformedJoin(c) =>
         /\ ev'.reply = "join-error"
         /\ ev'.conn = c
         /\ UNCHANGED regVars]_vars

CountedDispatch ==
  \/ ev.kind \in {"content-refresh", "api-notification"} /\ ev.reply = "200"
  \/ ev.kind = "send-notification" /\ ev.reply = "notification-sent"

\* C26: the count a scoped dispatch reports to its requester is the number
\* of connections that are members of the target room when it is made: 3
\* with three connections in the room of company 7, and 2 at the next
\* dispatch after one of them has disconnected.
C26_CountIsRoomSize ==
  CountedDispatch =>
    \E r \in ev.scopes :
      /\ ev.scopes = {r}
      /\ ev.count = Cardinality(Members(rooms, r))

\* The kinds of dispatch that are aimed at a room and answer their requester.
ScopedKinds == {"content-refresh", "api-notification", "send-notification"}

\* C27: a scoped dispatch whose target room has no member is answered as a
\* success with a delivered count of 0, never as an error, on every path (the
\* HTTP endpoints and the 'send-notification' socket event).
C27_EmptyScopeIsSuccess ==
  \A r \in ev.scopes :
    (/\ ev.kind \in ScopedKinds
     /\ ev.scopes = {r}
     /\ ev.reply # "notification-error: duplicate"
     /\ Members(rooms, r) = {})
      => /\ ev.reply \in {"200", "notification-sent"}
         /\ ev.count = 0

\* The paths that keep notification ids in the cache.
DedupKinds == {"send-notification", "sendToUser"}

\* A handler that checks the cache handles the request r.
DedupDispatch(r) ==
  \/ \E c \in NotifConns : SendNotification(c, r[1], r[2])
  \/ SendToUser(r[1], r[2])

\* C28: the check of the cache and the recording of the id are one atomic
\* step: of two dispatches with the same fingerprint (the same path, target,
\* clock reading and message), however their handling is interleaved with
\* other events, at most one is admitted and delivered; the other is
\* rejected as a duplicate and leaves the cache as it is.
C28_AtomicAdmit ==
  [][\A r \in RetryRequests :
       (/\ DedupDispatch(r)
        /\ prevNotif.path = ev'.kind
        /\ prevNotif.target = r[1]
        /\ prevNotif.message = r[2]
        /\ prevNotif.at = now)
         => /\ ev'.reply \notin AdmittedReplies
            /\ Receivers' = {}
            /\ sentNotifications' = sentNotifications]_vars

\* The notification admitted last on a path was sent again at the same
\* clock reading over the same path and was turned away.
C28_Witness ==
  /\ ev.kind \in DedupKinds
  /\ ev.reply \notin AdmittedReplies
  /\ ev.heldFor = 0
  /\ prevNotif.path = ev.kind
  /\ prevNotif.at = now

\* The age of the oldest entry of a cache at clock reading t (0 when empty).
OldestAge(cache, t) ==
  IF DOMAIN cache = {} THEN 0
  ELSE CHOOSE a \in {t - cache[k] : k \in DOMAIN cache} :
         \A k \in DOMAIN cache : t - cache[k] <= a

\* C29: the cache is bounded by time: right after each sweep it holds no
\* entry older than the retention window (5 minutes), and, the sweep running
\* every minute, no entry is ever in the cache for longer than the retention
\* window plus one sweep interval.
C29_CacheBoundedByTime ==
  [][/\ OldestAge(sentNotifications', now') <= RetentionWindow + SweepInterval
     /\ nextSweep' # nextSweep
          => OldestAge(sentNotifications', now') <= RetentionWindow]_vars

\* An entry that the sweep kept when it was as old as the window is in the
\* cache one sweep interval later.
C29_Witness ==
  /\ OldestAge(sentNotifications, now) = RetentionWindow + SweepInterval
  /\ nextSweep = now

\* C30: when the push delivery for user u fails, the call removes the
\* subscription record of u if and only if the status is 404 or 410: it then
\* starts removeSubscription(u), whose write of the local store leaves no
\* record of u in it; for every other failure status, and on success, the delivery
\* outcome changes neither store nor the sync queue and the call returns.
C30_RemovedIffGone ==
  [][\A t \in SoloClients, u \in StoreUsers :
       /\ \A status \in PushStatuses :
            (task[t].userId = u /\ WebPush(t, status)) =>
              /\ (status \in GoneStatuses) <=>
                   (task'[t].op = "remove" /\ task'[t].userId = u
                     /\ task'[t].pc = "readDB")
              /\ (status \notin GoneStatuses) => task'[t].pc = "idle"
              /\ UNCHANGED <<mysqlRows, jsonFile, syncQueue>>
       /\ (/\ task[t].cause = "gone" /\ task[t].userId = u
           /\ task[t].pc = "writeDB"
           /\ task'[t].pc = "testConnection")
            => LocalOf(u)' = {}]_vars

\* The only removes are those of failed deliveries: one has returned and the
\* local store has no record of the user.
C30_Witness ==
  /\ Quiet
  /\ \E u \in StoreUsers : lastWrite[u].type = "remove" /\ LocalOf(u) = {}

\* C31: the signaling relay is stateless: a call-user, answer-call,
\* ice-candidate or end-call message addressed to user t is written to
\* exactly the connections in the room of user t; when that room has no
\* member nobody gets it, no error is answered and nothing is queued; either
\* way the registry, the dedup cache and the subscription store stay as they
\* were.
C31_RelayStateless ==
  [][\A c \in Conns, kind \in SignalKinds, u \in UserIds :
       Signal(c, kind, u) =>
         /\ Receivers' = Members(rooms, UserRoom(u))
         /\ \A x \in RoomConns : ev'.copies[x] <= 1
         /\ ev'.reply = ""
         /\ UNCHANGED <<regVars, sentNotifications, storeVars>>]_vars

\* A signaling message for a user whose room has no member was dropped while
\* a connection was in another user's room and the cache held an entry.
C31_Witness ==
  /\ ev.kind \in SignalKinds
  /\ Receivers = {}
  /\ \E c \in live : UserRoomsOf(rooms, c) # {}
  /\ DOMAIN sentNotifications # {}

\* C32: in every state the registry holds no empty scope: every scope in the
\* list getConnectionStats returns has a member, so a scope whose last member
\* left or disconnected is not in that list any more.
C32_NoEmptyScope ==
  /\ \A r \in getConnectionStats(rooms, live, userSockets).rooms :
       Members(AdapterRooms(rooms, live), r) # {}
  /\ \A r \in ev.left \cup (IF ev.kind = "disconnect" THEN ev.scopes ELSE {}) :
       (r \in getConnectionStats(rooms, live, userSockets).rooms) =>
         Members(rooms, r) # {}

\* A socket that was the last member of a room disconnected, and the room is
\* gone from the list while another socket is still connected.
C32_Witness ==
  /\ ev.kind = "disconnect"
  /\ \E r \in ev.scopes : r \notin getConnectionStats(rooms, live, userSockets).rooms
  /\ live # {}

\* C33: writes of one user reach the durable store in submission order: when
\* a write W2 of user u was called while a replay still had a queued write W1
\* of u to send, and W2 has returned applied to the durable store, then once
\* the replay is over and nothing is in progress the durable store does not
\* hold W1's value for u (unless W2 wrote the same).
C33_SubmissionOrder ==
  \A u \in StoreUsers :
    (Quiet /\ syncQueue = <<>> /\ lastWrite[u].type \in WriteOps /\ ~lastWrite[u].queued)
      => \A value \in lastWrite[u].racing :
           value # Applied(lastWrite[u]) => DurableOf(u) # value

\* What a handler answers when it turns a notification away as a duplicate.
DuplicateReplies == {"notification-error: duplicate", "null"}

\* C34: rejecting a duplicate dispatch changes no state: when the id of the
\* notification is in the dedup cache the handler answers with the duplicate
\* reply, the cache is as before (the id keeps the time of its admission),
\* the rooms and the user map are as before, and the notification is written
\* to no socket.
C34_DuplicateIsNoOp ==
  [][\A r \in RetryRequests :
       (DedupDispatch(r) /\ ev'.heldFor >= 0)
         => /\ ev'.reply \in DuplicateReplies
            /\ sentNotifications' = sentNotifications
            /\ UNCHANGED regVars
            /\ Receivers' = {}]_vars

\* A duplicate was turned away while the room of its target had a member.
C34_Witness ==
  /\ ev.kind \in DedupKinds
  /\ ev.reply \in DuplicateReplies
  /\ \E room \in ev.scopes : Members(rooms, room) # {}

\* The id a handler that checks the cache builds for the request r.
DispatchId(kind, r) ==
  NotificationId(IF kind = "send-notification" THEN "user-" ELSE "server-",
                 r[1], now, r[2])

\* C35: every admitted 'send-notification' or sendToUser dispatch adds
\* exactly one entry to the dedup cache, its id with the current time,
\* whether or not the room of the target has a member: the id is recorded
\* also when nothing was delivered.
C35_AdmittedIsRecorded ==
  [][\A r \in RetryRequests :
       (DedupDispatch(r) /\ ev'.heldFor = -1)
         => /\ ev'.reply \in AdmittedReplies
            /\ sentNotifications' =
                 MapSet(sentNotifications, DispatchId(ev'.kind, r), now)
            /\ Cardinality(DOMAIN sentNotifications')
                 = Cardinality(DOMAIN sentNotifications) + 1
            /\ Receivers' = Members(rooms, UserRoom(r[1]))]_vars

\* A notification for a user with no connection was admitted: nobody got it
\* and its id is in the cache.
C35_Witness ==
  /\ ev.kind \in DedupKinds
  /\ ev.reply \in AdmittedReplies
  /\ Receivers = {}
  /\ \E r \in RetryRequests :
       /\ Members(rooms, UserRoom(r[1])) = {}
       /\ Has(sentNotifications, DispatchId(ev.kind, r))

\* C36: in every state the user map that getConnectionStats reports as
\* connectedUsers holds a user id exactly when a live connection is a member
\* of the room of that user, also when several connections join one user id
\* and one of them disconnects or joins another user.
C36_UserMapIsMembership ==
  \A u \in UserIds :
    (u \in getConnectionStats(rooms, live, userSockets).connectedUsers)
      <=> (Members(rooms, UserRoom(u)) \cap live # {})

\* C37: in every state every member of a company waiter room waiters-<c> is
\* a member of the global 'waiters' room, so the bell of a call-waiter, sent
\* to 'waiters', is written to every waiter connection of every company,
\* while a request-call that carries companyId c is written to the members
\* of waiters-<c> and to nobody else.
C37_WaitersNested ==
  /\ \A k \in CompanyIds :
       Members(rooms, WaiterRoom(k)) \subseteq Members(rooms, GlobalWaiters)
  /\ ev.kind = "call-waiter"
       => \A k \in CompanyIds : Members(rooms, WaiterRoom(k)) \subseteq Receivers
  /\ \A k \in CompanyIds :
       (ev.kind = "request-call" /\ ev.scopes = {WaiterRoom(k)})
         => Receivers = Members(rooms, WaiterRoom(k))

\* A request-call for one company reached its waiter and not the waiter of
\* the other company, who is in 'waiters' as well.
C37_Witness ==
  /\ ev.kind = "request-call"
  /\ Receivers # {}
  /\ Receivers # Members(rooms, GlobalWaiters)
  /\ \E k \in CompanyIds : Members(rooms, WaiterRoom(k)) \ Receivers # {}

\* C38: initSocket is idempotent: however often it is called there is one
\* server instance, one connection handler and one sweep timer, every call
\* returns that one instance, and an inbound event is handled once, so that
\* no socket is written more than one copy of what it emits.
C38_InitSocketIdempotent ==
  /\ io.calls >= 1 => (io.servers = 1 /\ io.listeners = 1 /\ io.timers = 1)
  /\ ev.kind = "initSocket" => ev.count = 1
  /\ \A x \in RoomConns : ev.copies[x] <= 1

\* After a second call of initSocket a signaling message was delivered.
C38_Witness ==
  /\ io.calls >= 2
  /\ ev.kind \in SignalKinds
  /\ Receivers # {}

====
